---- MODULE Spec2Model ----
(***************************************************************************)
(* The RAG podcast Q&A backend: the HTTP API (main.py) over the RAGService *)
(* (rag_service.py), its configuration (config.py), and the offline        *)
(* ingestion job (ingest_qdrant.py).                                       *)
(*                                                                         *)
(* Python values are tagged records [t, v]; a Python string is a sequence  *)
(* of one-character strings, so that strip, join and slicing are computed. *)
(***************************************************************************)
EXTENDS Integers, Sequences, FiniteSets, TLC

\* ------------------------------------------------------------------ bounds

\* connections the HTTP runtime holds open at once
MaxReq == 2
\* the most points one nearest-neighbour answer of the store holds
MaxHits == 2
\* the most times the ingestion job is started
MaxRuns == 2

\* ------------------------------------------------------- program constants

PreviewLen == 200
DEFAULT_SEARCH_LIMIT == 5
ReadyTimeout == 60
PollInterval == 2

\* ------------------------------------------------------------ Python values

None == [t |-> "none", v |-> <<>>]
VStr(s) == [t |-> "str", v |-> s]
VInt(n) == [t |-> "int", v |-> n]
VList(xs) == [t |-> "list", v |-> xs]
VDict(d) == [t |-> "dict", v |-> d]

\* a text of n characters
Text(n) == [i \in 1..n |-> IF i % 2 = 1 THEN "x" ELSE "y"]

IsSpace(c) == c = " "

RECURSIVE LStrip(_)
LStrip(s) == IF s # <<>> /\ IsSpace(Head(s)) THEN LStrip(Tail(s)) ELSE s

RECURSIVE RStrip(_)
RStrip(s) ==
    IF s # <<>> /\ IsSpace(s[Len(s)]) THEN RStrip(SubSeq(s, 1, Len(s) - 1)) ELSE s

\* str.strip()
Strip(s) == RStrip(LStrip(s))

\* sep.join(parts), parts a sequence of strings
RECURSIVE Join(_, _)
Join(sep, parts) ==
    IF parts = <<>> THEN <<>>
    ELSE IF Len(parts) = 1 THEN parts[1]
    ELSE parts[1] \o sep \o Join(sep, Tail(parts))

\* str(t) of a payload value
StrOf(t) ==
    IF t.t = "str" THEN t.v
    ELSE IF t.t = "none" THEN <<"N", "o", "n", "e">>
    ELSE <<"?">>

\* dict.get(key, default)
Get(d, key, default) == IF key \in DOMAIN d THEN d[key] ELSE default

\* round(score, 3): scores are counted in 1/10000, the result in 1/1000
Round3(s) ==
    LET q == s \div 10
        r == s % 10
    IN  IF r < 5 THEN q
        ELSE IF r > 5 THEN q + 1
        ELSE IF q % 2 = 0 THEN q ELSE q + 1

\* ------------------------------------------------------ the store's answers

TagAB == VList(<<VStr(<<"a">>), VStr(<<"b">>)>>)
TagANoneB == VList(<<VStr(<<"a">>), None, VStr(<<"b">>)>>)

ScoredPoints ==
    { [id |-> 1, score |-> 8766,
       payload |-> VDict([podcast_tag |-> TagAB, podcast_title |-> VStr(<<"T">>),
                         content |-> VStr(Text(PreviewLen + 1))])],
      [id |-> 2, score |-> 5005,
       payload |-> VDict([podcast_tag |-> VStr(<<"s">>), podcast_title |-> VStr(<<"U">>),
                         content |-> VStr(Text(PreviewLen))])],
      [id |-> 3, score |-> 3000,
       payload |-> VDict([podcast_tag |-> TagANoneB, podcast_title |-> VStr(<<"V">>),
                         content |-> VStr(Text(3))])],
      [id |-> 4, score |-> 1234, payload |-> None] }

IsInjective(s) == \A i, j \in DOMAIN s : s[i] = s[j] => i = j

\* what the store may answer to a search with this limit: ranked, no point twice
StoreAnswers(limit) ==
    UNION { { s \in [1..k -> ScoredPoints] : IsInjective(s) } :
            k \in { n \in 0..MaxHits : n <= limit } }

Queries == { <<>>, <<" ">>, <<" ", " ">>, <<"a">>, <<" ", "a", " ">> }
Limits == { None, VInt(1), VInt(2) }
Kinds == { "health", "chat", "search" }

\* ------------------------------------------------------------------- state

Slots == 1..MaxReq

VARIABLES
    phase,            \* the server process: "created", "serving" or "aborted"
    api_key,          \* config.OPENAI_API_KEY is set
    config_error,     \* startup logged "Config validation failed"
    init_error,       \* startup logged "Failed to initialize RAG service"
    rag_service,      \* main.rag_service: "null" or "service"
    embedding_model,  \* RAGService.embedding_model: 0 is None, else the handle
    llm_client,       \* RAGService.llm_client: 0 is None, else the handle
    embed_built,      \* SentenceTransformer objects constructed so far
    llm_built,        \* OpenAI clients constructed so far
    llm_failed,       \* an OpenAI() construction has raised
    running,          \* the handler the event loop is running, 0 when idle
    req,              \* per connection, the handler's position and locals
    response          \* the response the server sent last

apiVars == << phase, api_key, config_error, init_error, rag_service,
              embedding_model, llm_client, embed_built, llm_built, llm_failed,
              running, req, response >>

VARIABLES
    store_up,      \* the vector store answers calls
    collections,   \* the store's collections, by name, in creation order
    indexed,       \* the target collection has the podcast_tag payload index
    points,        \* the points of the target collection
    chunks_file,   \* qdrant_data/chunks.pkl: whether it exists, and its list
    ipc,           \* where main() is
    elapsed,       \* time.time() - start, in seconds
    chunks,        \* main's chunks
    next_chunk,    \* the loop of upsert_chunks: the index of the next chunk
    runs,          \* how often the job was started
    completed,     \* how often it printed "Ingestion completed"
    first_ids,     \* the ids of the points when the first run completed
    ready,         \* this run's readiness poll succeeded
    ensured,       \* this run's ensure_collection returned
    create_calls,  \* create_collection calls so far
    index_calls,   \* create_payload_index calls so far
    upsert_calls   \* upsert calls so far

ingestVars == << store_up, collections, indexed, points, chunks_file, ipc, elapsed,
                 chunks, next_chunk, runs, completed, first_ids, ready, ensured,
                 create_calls, index_calls, upsert_calls >>

NoCalls == [service |-> 0, search |-> 0, load |-> 0, build |-> 0, sdk |-> 0, http |-> 0]

IdleReq == [pc |-> "idle", kind |-> "none", query |-> <<>>, limit |-> None,
            hits |-> <<>>, results |-> <<>>, model |-> 0, client |-> 0,
            calls |-> NoCalls]

NoResponse == [slot |-> 0, kind |-> "none", query |-> <<>>, status |-> 0,
               null_service |-> FALSE, error |-> "none", body |-> None,
               hits |-> <<>>, results |-> <<>>, calls |-> NoCalls]

\* ------------------------------------------------- config.py and main.py

\* Config.validate(): raises when the one required key is missing
validate(key) == IF key THEN "ok" ELSE "ValueError"

\* startup_event with validation and construction in one try block
startup_event_single_try(key, qdrant_ok) ==
    [ phase        |-> "serving",
      config_error |-> validate(key) # "ok",
      init_error   |-> validate(key) = "ok" /\ ~qdrant_ok,
      rag_service  |-> IF validate(key) = "ok" /\ qdrant_ok THEN "service" ELSE "null" ]

\* startup_event: a failed validation is logged and the service is built all the
\* same; a failed RAGService() is logged and leaves rag_service null
startup_event(key, qdrant_ok) ==
    [ phase        |-> "serving",
      config_error |-> validate(key) # "ok",
      init_error   |-> ~qdrant_ok,
      rag_service  |-> IF qdrant_ok THEN "service" ELSE "null" ]

\* an endpoint raises HTTPException(status) inside its try block, and its own
\* "except Exception" catches it (HTTPException is an Exception) and raises
\* HTTPException(500) in its place
EndpointRaise(status) == 500

\* "if not query.strip()"
Blank(query) == Strip(query) = <<>>

\* the endpoints as plain "def": the runtime runs them on threads of a pool
CanRunThreaded(r) == TRUE

\* the three endpoints are "async def" with no await: the event loop runs one
\* handler to its end before it starts the next
CanRun(r) == running \in {0, r}

\* ---------------------------------------------------------- rag_service.py

\* "if limit is None: limit = config.DEFAULT_SEARCH_LIMIT"
EffectiveLimit(limit) == IF limit = None THEN DEFAULT_SEARCH_LIMIT ELSE limit.v

NotNone(t) == t # None

CommaSpace == <<",", " ">>

\* the tag joined by "," alone
NormalizeTagNoSpace(tag_value) ==
    IF tag_value.t = "list"
    THEN LET kept == SelectSeq(tag_value.v, NotNone)
         IN  VStr(Join(<<",">>, [i \in 1..Len(kept) |-> StrOf(kept[i])]))
    ELSE tag_value

\* the tag of one result: a list is joined, anything else is passed on
NormalizeTag(tag_value) ==
    IF tag_value.t = "list"
    THEN LET kept == SelectSeq(tag_value.v, NotNone)
         IN  VStr(Join(CommaSpace, [i \in 1..Len(kept) |-> StrOf(kept[i])]))
    ELSE tag_value

\* "payload = scored_point.payload or {}"
PayloadOf(scored_point) ==
    IF scored_point.payload.t = "dict" THEN scored_point.payload.v ELSE <<>>

FormatResult(scored_point) ==
    LET payload == PayloadOf(scored_point)
    IN  [ id            |-> scored_point.id,
          score         |-> scored_point.score,
          podcast_tag   |-> NormalizeTag(Get(payload, "podcast_tag", VStr(<<>>))),
          podcast_title |-> Get(payload, "podcast_title", VStr(<<>>)),
          content       |-> Get(payload, "content", VStr(<<>>)) ]

\* the loop of search_similar_content over the store's answer
FormatResults(search_result) ==
    [i \in 1..Len(search_result) |-> FormatResult(search_result[i])]

Ellipsis == <<".", ".", ".">>

\* the preview cut at "len(content) >= 200"
ContentPreviewAtLeast(content) ==
    IF Len(content.v) >= PreviewLen
    THEN VStr(SubSeq(content.v, 1, PreviewLen) \o Ellipsis)
    ELSE content

\* content[:200] + "..." if len(content) > 200 else content
ContentPreview(content) ==
    IF Len(content.v) > PreviewLen
    THEN VStr(SubSeq(content.v, 1, PreviewLen) \o Ellipsis)
    ELSE content

FormatSource(result) ==
    [ title           |-> result.podcast_title,
      tag             |-> result.podcast_tag,
      score           |-> Round3(result.score),
      content_preview |-> ContentPreview(result.content) ]

FormatSources(search_results) ==
    [i \in 1..Len(search_results) |-> FormatSource(search_results[i])]

CannedAnswer == "I couldn't find any relevant content"
LlmAnswer == "answer of the LLM"

\* chat without its "if not search_results" return
ChatAfterSearchAlways(search_results) == "generate"

\* chat, after the search returned: "if not search_results: return {canned}"
ChatAfterSearch(search_results) ==
    IF search_results = <<>> THEN "canned" ELSE "generate"

ChatBody(answer, sources, query) ==
    [answer |-> answer, sources |-> sources, query |-> query]

SearchBody(results, query) == [results |-> results, query |-> query]

\* the two reports of a handle swapped
ComponentStatusSwapped(handle) == IF handle = 0 THEN "initialized" ELSE "deferred"

ComponentStatus(handle) == IF handle = 0 THEN "deferred" ELSE "initialized"

CollectionName == "podcast_chunks"

\* RAGService.health_check: names is the store's collection list, or the store
\* call failed
HealthBody(store_ok, names, em, lc) ==
    [ status |-> IF store_ok THEN "healthy" ELSE "unhealthy",
      qdrant |-> IF store_ok
                 THEN [status |-> "healthy", collections |-> names,
                       target_collection_exists |->
                           \E i \in 1..Len(names) : names[i] = CollectionName]
                 ELSE [status |-> "unhealthy", error |-> "str(e)"],
      embedding_model |-> ComponentStatus(em),
      openai |-> ComponentStatus(lc) ]

CollectionLists == { <<>>, <<"other">>, <<"other", CollectionName>> }

\* ------------------------------------------------------ the HTTP handlers

\* the handler returns or raises: the response goes out, the loop is free
Respond(r, rq, status, error, body) ==
    /\ response' = [ slot |-> r, kind |-> rq.kind, query |-> rq.query,
                     status |-> status, null_service |-> rag_service = "null",
                     error |-> error, body |-> body, hits |-> rq.hits,
                     results |-> rq.results, calls |-> rq.calls ]
    /\ req' = [req EXCEPT ![r] = IdleReq]
    /\ running' = 0

\* the handler goes on to its next statement
Continue(r, rq) ==
    /\ req' = [req EXCEPT ![r] = rq]
    /\ running' = r

\* an exception leaves the service method: the endpoint's except turns it into 500
Raise(r, rq, error) == Respond(r, rq, 500, error, None)

\* main.startup_event
Startup ==
    /\ phase = "created"
    /\ running = 0
    /\ \E qdrant_ok \in BOOLEAN :
          LET out == startup_event(api_key, qdrant_ok)
          IN  /\ phase' = out.phase
              /\ config_error' = out.config_error
              /\ init_error' = out.init_error
              /\ rag_service' = out.rag_service
    /\ embedding_model' = 0
    /\ llm_client' = 0
    /\ UNCHANGED << api_key, embed_built, llm_built, running, req, response >>
    /\ UNCHANGED llm_failed
    /\ UNCHANGED ingestVars

\* health_check, chat, search of main.py, up to the call of the service method
Begin(r) ==
    /\ phase # "aborted"
    /\ req[r].pc = "idle"
    /\ CanRun(r)
    /\ \E kind \in Kinds, query \in Queries, limit \in Limits :
          /\ kind = "health" => query = <<>> /\ limit = None
          /\ LET rq == [IdleReq EXCEPT !.kind = kind, !.query = query, !.limit = limit]
             IN  IF rag_service = "null"
                 THEN Respond(r, rq, EndpointRaise(503), "http_503", None)
                 ELSE IF kind # "health" /\ Blank(query)
                 THEN Respond(r, rq, EndpointRaise(400), "http_400", None)
                 ELSE /\ Continue(r, [rq EXCEPT
                              !.pc = IF kind = "health" THEN "health" ELSE "embed_check",
                              !.calls.service = 1])
                      /\ response' = NoResponse
    /\ UNCHANGED << phase, api_key, config_error, init_error, rag_service,
                    embedding_model, llm_client, embed_built, llm_built >>
    /\ UNCHANGED llm_failed
    /\ UNCHANGED ingestVars

\* RAGService.health_check
health_check(r) ==
    /\ req[r].pc = "health"
    /\ CanRun(r)
    /\ \E store_ok \in BOOLEAN, names \in CollectionLists :
          /\ ~store_ok => names = <<>>
          /\ Respond(r, req[r], 200, "none",
                     HealthBody(store_ok, names, embedding_model, llm_client))
    /\ UNCHANGED << phase, api_key, config_error, init_error, rag_service,
                    embedding_model, llm_client, embed_built, llm_built >>
    /\ UNCHANGED llm_failed
    /\ UNCHANGED ingestVars

\* _ensure_embedding_model: "if self.embedding_model is None"
ensure_embedding_model_check(r) ==
    /\ req[r].pc = "embed_check"
    /\ CanRun(r)
    /\ IF embedding_model = 0
       THEN Continue(r, [req[r] EXCEPT !.pc = "embed_load"])
       ELSE Continue(r, [req[r] EXCEPT !.pc = "search", !.model = embedding_model])
    /\ UNCHANGED << phase, api_key, config_error, init_error, rag_service,
                    embedding_model, llm_client, embed_built, llm_built, response >>
    /\ UNCHANGED llm_failed
    /\ UNCHANGED ingestVars

\* _ensure_embedding_model: SentenceTransformer(...), which may raise
ensure_embedding_model_load(r) ==
    /\ req[r].pc = "embed_load"
    /\ CanRun(r)
    /\ \E ok \in BOOLEAN :
          IF ok
          THEN /\ embed_built' = embed_built + 1
               /\ embedding_model' = embed_built + 1
               /\ Continue(r, [req[r] EXCEPT !.pc = "search", !.calls.load = @ + 1,
                                              !.model = embed_built + 1])
               /\ response' = response
          ELSE /\ Raise(r, [req[r] EXCEPT !.calls.load = @ + 1], "embed")
               /\ UNCHANGED << embed_built, embedding_model >>
    /\ UNCHANGED << phase, api_key, config_error, init_error, rag_service,
                    llm_client, llm_built >>
    /\ UNCHANGED llm_failed
    /\ UNCHANGED ingestVars

\* search_similar_content from encode on, and what chat and search do with it
search_similar_content(r) ==
    /\ req[r].pc = "search"
    /\ CanRun(r)
    /\ \/ Raise(r, req[r], "encode")
       \/ Raise(r, [req[r] EXCEPT !.calls.search = @ + 1], "search")
       \/ \E hits \in StoreAnswers(EffectiveLimit(req[r].limit)) :
             LET results == FormatResults(hits)
                 rq == [req[r] EXCEPT !.calls.search = @ + 1, !.hits = hits,
                                      !.results = results]
             IN  IF rq.kind = "search"
                 THEN Respond(r, rq, 200, "none", SearchBody(results, rq.query))
                 ELSE IF ChatAfterSearch(results) = "canned"
                 THEN Respond(r, rq, 200, "none",
                              ChatBody(CannedAnswer, <<>>, rq.query))
                 ELSE /\ Continue(r, [rq EXCEPT !.pc = "llm_check"])
                      /\ response' = response
    /\ UNCHANGED << phase, api_key, config_error, init_error, rag_service,
                    embedding_model, llm_client, embed_built, llm_built >>
    /\ UNCHANGED llm_failed
    /\ UNCHANGED ingestVars

\* generate_answer up to _ensure_llm_client: "if self.llm_client is None"
ensure_llm_client_check(r) ==
    /\ req[r].pc = "llm_check"
    /\ CanRun(r)
    /\ IF llm_client = 0
       THEN Continue(r, [req[r] EXCEPT !.pc = "llm_build"])
       ELSE Continue(r, [req[r] EXCEPT !.pc = "sdk_call", !.client = llm_client])
    /\ UNCHANGED << phase, api_key, config_error, init_error, rag_service,
                    embedding_model, llm_client, embed_built, llm_built, response >>
    /\ UNCHANGED llm_failed
    /\ UNCHANGED ingestVars

\* _ensure_llm_client: OpenAI(), whose failure is logged and leaves None
ensure_llm_client_build(r) ==
    /\ req[r].pc = "llm_build"
    /\ CanRun(r)
    /\ \E ok \in BOOLEAN :
          IF ok
          THEN /\ llm_built' = llm_built + 1
               /\ llm_client' = llm_built + 1
               /\ llm_failed' = llm_failed
               /\ Continue(r, [req[r] EXCEPT !.pc = "sdk_call", !.calls.build = @ + 1,
                                              !.client = llm_built + 1])
          ELSE /\ llm_built' = llm_built
               /\ llm_client' = 0
               /\ llm_failed' = TRUE
               /\ Continue(r, [req[r] EXCEPT !.pc = "http_call", !.calls.build = @ + 1,
                                              !.client = 0])
    /\ UNCHANGED << phase, api_key, config_error, init_error, rag_service,
                    embedding_model, embed_built, response >>
    /\ UNCHANGED ingestVars

\* what chat returns once generate_answer returned
Answered(r, rq) ==
    Respond(r, rq, 200, "none",
            ChatBody(LlmAnswer, FormatSources(rq.results), rq.query))

\* generate_answer falling back to HTTP when the SDK call raised
generate_answer_sdk_then_http(r) ==
    /\ req[r].pc = "sdk_call"
    /\ CanRun(r)
    /\ LET rq == [req[r] EXCEPT !.calls.sdk = @ + 1]
       IN  \/ Answered(r, rq)
           \/ /\ Continue(r, [rq EXCEPT !.pc = "http_call"])
              /\ response' = response
    /\ UNCHANGED << phase, api_key, config_error, init_error, rag_service,
                    embedding_model, llm_client, embed_built, llm_built >>
    /\ UNCHANGED llm_failed
    /\ UNCHANGED ingestVars

\* generate_answer: client.chat.completions.create(...)
generate_answer_sdk(r) ==
    /\ req[r].pc = "sdk_call"
    /\ CanRun(r)
    /\ LET rq == [req[r] EXCEPT !.calls.sdk = @ + 1]
       IN  \/ Answered(r, rq)
           \/ Raise(r, rq, "llm_sdk")
    /\ UNCHANGED << phase, api_key, config_error, init_error, rag_service,
                    embedding_model, llm_client, embed_built, llm_built >>
    /\ UNCHANGED llm_failed
    /\ UNCHANGED ingestVars

\* generate_answer: the requests.post fallback and raise_for_status
generate_answer_http(r) ==
    /\ req[r].pc = "http_call"
    /\ CanRun(r)
    /\ LET rq == [req[r] EXCEPT !.calls.http = @ + 1]
       IN  \/ Answered(r, rq)
           \/ Raise(r, rq, "llm_http")
    /\ UNCHANGED << phase, api_key, config_error, init_error, rag_service,
                    embedding_model, llm_client, embed_built, llm_built >>
    /\ UNCHANGED llm_failed
    /\ UNCHANGED ingestVars

ApiInit ==
    /\ phase = "created"
    /\ api_key \in BOOLEAN
    /\ config_error = FALSE
    /\ init_error = FALSE
    /\ rag_service = "null"
    /\ embedding_model = 0
    /\ llm_client = 0
    /\ embed_built = 0
    /\ llm_built = 0
    /\ llm_failed = FALSE
    /\ running = 0
    /\ req = [r \in Slots |-> IdleReq]
    /\ response = NoResponse

ApiNext ==
    \/ Startup
    \/ \E r \in Slots : Begin(r)
    \/ \E r \in Slots : health_check(r)
    \/ \E r \in Slots : ensure_embedding_model_check(r)
    \/ \E r \in Slots : ensure_embedding_model_load(r)
    \/ \E r \in Slots : search_similar_content(r)
    \/ \E r \in Slots : ensure_llm_client_check(r)
    \/ \E r \in Slots : ensure_llm_client_build(r)
    \/ \E r \in Slots : generate_answer_sdk(r)
    \/ \E r \in Slots : generate_answer_http(r)

\* ------------------------------------------------------- ingest_qdrant.py

ChunkA == [id |-> VInt(1), podcast_title |-> VStr(<<"T">>), podcast_tag |-> TagAB,
           content |-> VStr(<<"x">>)]
ChunkB == [id |-> VInt(2), podcast_title |-> VStr(<<"U">>), podcast_tag |-> VStr(<<"s">>),
           content |-> VStr(<<"y", "y">>)]
\* a second chunk with the id of ChunkA
ChunkA2 == [id |-> VInt(1), podcast_title |-> VStr(<<"T">>), podcast_tag |-> TagAB,
            content |-> VStr(<<"z", "z", "z">>)]
\* a chunk with nothing but an id
ChunkBare == [id |-> VInt(3)]
\* a chunk without an id
ChunkNoId == [content |-> VStr(<<"x">>)]

ChunkLists == { <<>>, <<ChunkA>>, <<ChunkA, ChunkB>>, <<ChunkA, ChunkB, ChunkA2>>,
                <<ChunkB, ChunkBare>>, <<ChunkA, ChunkNoId, ChunkB>> }

ChunkFiles == { [exists |-> FALSE, list |-> <<>>] }
                  \cup { [exists |-> TRUE, list |-> l] : l \in ChunkLists }

\* model.encode(text).tolist(): a vector that the text determines
Encode(content) == <<Len(content.v)>>

\* a PointStruct with a new id for every upsert
PointStructFreshId(chunk) ==
    [ id      |-> VInt(100 + upsert_calls),
      vector  |-> Encode(Get(chunk, "content", VStr(<<>>))),
      payload |-> [ podcast_title |-> Get(chunk, "podcast_title", VStr(<<>>)),
                    podcast_tag   |-> Get(chunk, "podcast_tag", VStr(<<>>)),
                    content       |-> Get(chunk, "content", VStr(<<>>)) ] ]

\* the PointStruct that upsert_chunks builds of a chunk
PointStruct(chunk) ==
    [ id      |-> Get(chunk, "id", None),
      vector  |-> Encode(Get(chunk, "content", VStr(<<>>))),
      payload |-> [ podcast_title |-> Get(chunk, "podcast_title", VStr(<<>>)),
                    podcast_tag   |-> Get(chunk, "podcast_tag", VStr(<<>>)),
                    content       |-> Get(chunk, "content", VStr(<<>>)) ] ]

\* PointStruct validates its id: an int or a str, never None
ValidPoint(point) == point.id # None

\* client.upsert of one point: the store replaces the point of that id, or adds
StoreUpsert(pts, point) ==
    IF \E i \in 1..Len(pts) : pts[i].id = point.id
    THEN [i \in 1..Len(pts) |-> IF pts[i].id = point.id THEN point ELSE pts[i]]
    ELSE Append(pts, point)

Names(colls) == { colls[i] : i \in 1..Len(colls) }

\* ensure_collection without its check of the names
MustCreateAlways(collection_name, names) == TRUE

\* ensure_collection: "if collection_name not in names"
MustCreate(collection_name, names) == collection_name \notin names

\* client.create_collection: the store refuses a name it already has
StoreCreateOk(colls, collection_name) == collection_name \notin Names(colls)

OldPoint == [id |-> VInt(1), vector |-> <<7>>,
             payload |-> [podcast_title |-> VStr(<<"O">>), podcast_tag |-> VStr(<<>>),
                          content |-> VStr(<<"o">>)]]
OtherPoint == [id |-> VInt(9), vector |-> <<1>>,
               payload |-> [podcast_title |-> VStr(<<"P">>), podcast_tag |-> VStr(<<>>),
                            content |-> VStr(<<"p">>)]]

IngestInit ==
    /\ store_up \in BOOLEAN
    /\ collections \in { <<>>, <<"other">>, <<"other", CollectionName>> }
    /\ indexed \in BOOLEAN
    /\ indexed => CollectionName \in Names(collections)
    /\ points \in { <<>>, <<OldPoint, OtherPoint>> }
    /\ points # <<>> => CollectionName \in Names(collections)
    /\ chunks_file \in ChunkFiles
    /\ ipc = "idle"
    /\ elapsed = 0
    /\ chunks = <<>>
    /\ next_chunk = 1
    /\ runs = 0
    /\ completed = 0
    /\ first_ids = <<>>
    /\ ready = FALSE
    /\ ensured = FALSE
    /\ create_calls = 0
    /\ index_calls = 0
    /\ upsert_calls = 0

\* the store becomes reachable, or stops being so
StoreUp ==
    /\ ~store_up
    /\ store_up' = TRUE
    /\ UNCHANGED << collections, indexed, points, chunks_file, ipc, elapsed, chunks,
                    next_chunk, runs, completed, first_ids, ready, ensured, create_calls,
                    index_calls, upsert_calls >>
    /\ UNCHANGED apiVars

StoreDown ==
    /\ store_up
    /\ store_up' = FALSE
    /\ UNCHANGED << collections, indexed, points, chunks_file, ipc, elapsed, chunks,
                    next_chunk, runs, completed, first_ids, ready, ensured, create_calls,
                    index_calls, upsert_calls >>
    /\ UNCHANGED apiVars

\* main() is started: the client object is made, the clock is read
main ==
    /\ ipc \in {"idle", "done", "failed"}
    /\ runs < MaxRuns
    /\ runs' = runs + 1
    /\ ipc' = "poll"
    /\ elapsed' = 0
    /\ ready' = FALSE
    /\ ensured' = FALSE
    /\ chunks' = <<>>
    /\ next_chunk' = 1
    /\ UNCHANGED << store_up, collections, indexed, points, chunks_file, completed,
                    first_ids, create_calls, index_calls, upsert_calls >>
    /\ UNCHANGED apiVars

\* the readiness loop left after its first round, whatever the store answered
wait_ready_once ==
    /\ ipc = "poll"
    /\ ready' = store_up
    /\ ipc' = "model"
    /\ elapsed' = elapsed
    /\ UNCHANGED << store_up, collections, indexed, points, chunks_file, chunks,
                    next_chunk, runs, completed, first_ids, ensured, create_calls,
                    index_calls, upsert_calls >>
    /\ UNCHANGED apiVars

\* one round of the readiness loop of main()
wait_ready ==
    /\ ipc = "poll"
    /\ IF store_up
       THEN /\ ready' = TRUE
            /\ ipc' = "model"
            /\ elapsed' = elapsed
       ELSE IF elapsed > ReadyTimeout
       THEN /\ ipc' = "failed"
            /\ UNCHANGED << ready, elapsed >>
       ELSE /\ elapsed' = elapsed + PollInterval
            /\ UNCHANGED << ready, ipc >>
    /\ UNCHANGED << store_up, collections, indexed, points, chunks_file, chunks,
                    next_chunk, runs, completed, first_ids, ensured, create_calls,
                    index_calls, upsert_calls >>
    /\ UNCHANGED apiVars

\* main(): SentenceTransformer(config.EMBEDDING_MODEL), which may raise
LoadModel ==
    /\ ipc = "model"
    /\ \E ok \in BOOLEAN : ipc' = IF ok THEN "ensure" ELSE "failed"
    /\ UNCHANGED << store_up, collections, indexed, points, chunks_file, elapsed,
                    chunks, next_chunk, runs, completed, first_ids, ready, ensured,
                    create_calls, index_calls, upsert_calls >>
    /\ UNCHANGED apiVars

\* ensure_collection(client, config.COLLECTION_NAME)
ensure_collection ==
    /\ ipc = "ensure"
    /\ IF ~store_up
       THEN \* get_collections raises
            /\ ipc' = "failed"
            /\ UNCHANGED << collections, indexed, create_calls, index_calls >>
       ELSE IF MustCreate(CollectionName, Names(collections))
       THEN /\ create_calls' = create_calls + 1
            /\ \E create_ok, index_ok \in BOOLEAN :
                  IF create_ok /\ StoreCreateOk(collections, CollectionName)
                  THEN /\ collections' = Append(collections, CollectionName)
                       /\ index_calls' = index_calls + 1
                       \* a failed create_payload_index is printed as a warning
                       /\ indexed' = index_ok
                       /\ ipc' = "load"
                  ELSE /\ index_ok
                       /\ ipc' = "failed"
                       /\ UNCHANGED << collections, indexed, index_calls >>
       ELSE /\ ipc' = "load"
            /\ UNCHANGED << collections, indexed, create_calls, index_calls >>
    /\ ensured' = (ipc' = "load")
    /\ UNCHANGED << store_up, points, chunks_file, elapsed, chunks, next_chunk, runs,
                    completed, first_ids, ready, upsert_calls >>
    /\ UNCHANGED apiVars

\* locate_chunks_pkl and load_chunks
load_chunks ==
    /\ ipc = "load"
    /\ IF chunks_file.exists
       THEN /\ chunks' = chunks_file.list
            /\ ipc' = "upsert"
       ELSE /\ ipc' = "failed"
            /\ chunks' = chunks
    /\ next_chunk' = 1
    /\ UNCHANGED << store_up, collections, indexed, points, chunks_file, elapsed, runs,
                    completed, first_ids, ready, ensured, create_calls, index_calls,
                    upsert_calls >>
    /\ UNCHANGED apiVars

PointIds(pts) == [i \in 1..Len(pts) |-> pts[i].id]

\* upsert_chunks: one round of its loop
upsert_chunks ==
    /\ ipc = "upsert"
    /\ next_chunk <= Len(chunks)
    /\ LET point == PointStruct(chunks[next_chunk])
       IN  IF ValidPoint(point) /\ store_up
           THEN /\ points' = StoreUpsert(points, point)
                /\ upsert_calls' = upsert_calls + 1
                /\ next_chunk' = next_chunk + 1
                /\ ipc' = ipc
           ELSE /\ ipc' = "failed"
                /\ upsert_calls' = IF ValidPoint(point) THEN upsert_calls + 1
                                   ELSE upsert_calls
                /\ UNCHANGED << points, next_chunk >>
    /\ UNCHANGED << store_up, collections, indexed, chunks_file, elapsed, chunks, runs,
                    completed, first_ids, ready, ensured, create_calls, index_calls >>
    /\ UNCHANGED apiVars

\* upsert_chunks returns and main() prints "Ingestion completed"
Complete ==
    /\ ipc = "upsert"
    /\ next_chunk > Len(chunks)
    /\ ipc' = "done"
    /\ completed' = completed + 1
    /\ first_ids' = IF completed = 0 THEN PointIds(points) ELSE first_ids
    /\ UNCHANGED << store_up, collections, indexed, points, chunks_file, elapsed,
                    chunks, next_chunk, runs, ready, ensured, create_calls, index_calls,
                    upsert_calls >>
    /\ UNCHANGED apiVars

IngestNext ==
    \/ StoreUp
    \/ StoreDown
    \/ main
    \/ wait_ready
    \/ LoadModel
    \/ ensure_collection
    \/ load_chunks
    \/ upsert_chunks
    \/ Complete

\* --------------------------------------------------------- specifications

vars == << apiVars, ingestVars >>

\* the ingestion job is not running
IngestParked ==
    /\ store_up = TRUE
    /\ collections = <<>>
    /\ indexed = FALSE
    /\ points = <<>>
    /\ chunks_file = [exists |-> FALSE, list |-> <<>>]
    /\ ipc = "idle"
    /\ elapsed = 0
    /\ chunks = <<>>
    /\ next_chunk = 1
    /\ runs = 0
    /\ completed = 0
    /\ first_ids = <<>>
    /\ ready = FALSE
    /\ ensured = FALSE
    /\ create_calls = 0
    /\ index_calls = 0
    /\ upsert_calls = 0

\* the server is not running
ApiParked ==
    /\ phase = "created"
    /\ api_key = TRUE
    /\ config_error = FALSE
    /\ init_error = FALSE
    /\ rag_service = "null"
    /\ embedding_model = 0
    /\ llm_client = 0
    /\ embed_built = 0
    /\ llm_built = 0
    /\ llm_failed = FALSE
    /\ running = 0
    /\ req = [r \in Slots |-> IdleReq]
    /\ response = NoResponse

\* the server
Init == ApiInit /\ IngestParked
Next == ApiNext
Spec == Init /\ [][Next]_vars

\* the ingestion job
InitIngest == IngestInit /\ ApiParked
NextIngest == IngestNext
SpecIngest == InitIngest /\ [][NextIngest]_vars

\* the ingestion job as a process that keeps running: the readiness loop goes
\* on to its next round
SpecIngestFair == SpecIngest /\ WF_vars(wait_ready)

\* ------------------------------------------------------------- the claims

LlmAttempts(calls) == calls.build + calls.sdk + calls.http

\* C1: a chat or search request with an empty or whitespace-only query, sent
\* while the service is initialized, is answered with status 400, and neither
\* the store's search nor the LLM is called.
C1_BlankQueryIs400 ==
    (response.kind \in {"chat", "search"} /\ ~response.null_service
                                          /\ Strip(response.query) = <<>>)
        => /\ response.status = 400
           /\ response.calls.search = 0
           /\ LlmAttempts(response.calls) = 0

\* C2: while the service object is null, every health, chat and search request
\* is answered with status 503, and no service method is invoked.
C2_NullServiceIs503 ==
    (response.kind \in Kinds /\ response.null_service)
        => /\ response.status = 503
           /\ response.calls.service = 0

\* C3: in chat, an empty search result means no LLM construction or call and
\* the canned answer with no sources and the original query; a non-empty one
\* means exactly one LLM call, by the SDK or by HTTP; a search that raises
\* means no LLM call and an error for the caller.
C3_ChatLlmGating ==
    /\ \A r \in Slots :
          /\ req[r].calls.sdk + req[r].calls.http <= 1
          /\ LlmAttempts(req[r].calls) > 0 => req[r].results # <<>>
    /\ (response.kind = "chat" /\ response.calls.service = 1) =>
          /\ response.error \in {"embed", "encode", "search"} =>
                /\ LlmAttempts(response.calls) = 0
                /\ response.status = 500
          /\ (response.error \notin {"embed", "encode", "search"}
                  /\ response.hits = <<>>) =>
                /\ LlmAttempts(response.calls) = 0
                /\ response.status = 200
                /\ response.body.answer = CannedAnswer
                /\ response.body.sources = <<>>
                /\ response.body.query = response.query
          /\ (response.error \notin {"embed", "encode", "search"}
                  /\ response.hits # <<>>) =>
                /\ response.calls.sdk + response.calls.http = 1
                /\ response.calls.build <= 1

\* C3 happens: a chat whose search found nothing was answered
C3_Witness ==
    /\ response.kind = "chat"
    /\ response.calls.search = 1
    /\ response.error = "none"
    /\ response.hits = <<>>
    /\ response.status = 200

PointsOfId(pts, id) == { k \in 1..Len(pts) : pts[k].id = id }

ChunkId(chunk) == IF "id" \in DOMAIN chunk THEN chunk.id ELSE None

\* the last chunk of the list with the id of chunk i
LastWithId(list, i) ==
    list[CHOOSE k \in 1..Len(list) :
            /\ ChunkId(list[k]) = ChunkId(list[i])
            /\ \A m \in (k + 1)..Len(list) : ChunkId(list[m]) # ChunkId(list[i])]

\* C4: when the job has run to completion, the store holds exactly one point
\* per chunk id, with the payload of the last chunk of that id; when it has
\* done so twice or more on the same chunk list, the store holds the same
\* point ids, and as many points, as after the first completed run.
C4_ReingestIdempotent ==
    ipc = "done" =>
        /\ \A i \in 1..Len(chunks) :
              /\ Cardinality(PointsOfId(points, ChunkId(chunks[i]))) = 1
              /\ \A k \in PointsOfId(points, ChunkId(chunks[i])) :
                    points[k].payload.content =
                        Get(LastWithId(chunks, i), "content", VStr(<<>>))
        /\ completed >= 2 =>
              /\ Len(points) = Len(first_ids)
              /\ { points[k].id : k \in 1..Len(points) }
                    = { first_ids[k] : k \in 1..Len(first_ids) }

\* C4 happens: the job completed twice on a list with a repeated id, over a
\* collection that already held a point of that id
C4_Witness ==
    /\ ipc = "done"
    /\ completed = 2
    /\ chunks = <<ChunkA, ChunkB, ChunkA2>>
    /\ upsert_calls = 6
    /\ Len(points) = 3

CountOf(colls, name) == Cardinality({ i \in 1..Len(colls) : colls[i] = name })

\* C5: ensure_collection calls create_collection and create_payload_index only
\* when the store lists no collection of the configured name; when the store
\* lists one, it makes no create call, raises nothing and leaves the store's
\* collections and points as they are; after it has returned, however often,
\* the store has exactly one collection of that name.
C5_EnsureCollectionIdempotent ==
    [][ (ipc = "ensure" /\ ipc' # "ensure") =>
          LET listed == store_up
              existed == CollectionName \in Names(collections)
          IN  /\ (create_calls' # create_calls \/ index_calls' # index_calls)
                    => listed /\ ~existed
              /\ (listed /\ ~existed) => create_calls' = create_calls + 1
              /\ (listed /\ existed) =>
                    /\ ipc' = "load"
                    /\ collections' = collections
                    /\ points' = points
                    /\ indexed' = indexed
                    /\ create_calls' = create_calls
                    /\ index_calls' = index_calls
              /\ ipc' = "load" => CountOf(collections', CollectionName) = 1
              /\ CountOf(collections', CollectionName) <= 1 ]_vars

\* C5 happens: the first run created the collection and the second run's
\* ensure_collection found it and returned
C5_Witness ==
    /\ runs = 2
    /\ ipc = "load"
    /\ create_calls = 1
    /\ index_calls = 1
    /\ CountOf(collections, CollectionName) = 1

\* a step that calls a writing operation of the store
StoreWrite ==
    \/ collections' # collections
    \/ points' # points
    \/ indexed' # indexed
    \/ create_calls' # create_calls
    \/ index_calls' # index_calls
    \/ upsert_calls' # upsert_calls

\* C11: in every run, nothing is created or upserted before a readiness poll
\* has succeeded, and no upsert is made before ensure_collection has returned;
\* a poll that finds the store reachable lets the job proceed, a poll that does
\* not is repeated after the interval until the timeout has passed, and then
\* the job fails with nothing written; no other step is repeated; and the job
\* does leave the readiness loop, one way or the other.
C11_ReadinessFirst ==
    /\ [][ /\ StoreWrite => ready /\ ready'
           /\ upsert_calls' # upsert_calls => ensured
           /\ (ipc = "poll" /\ ipc' = "model") => store_up /\ ready'
           /\ (ipc = "poll" /\ store_up /\ store_up') => ipc' = "model"
           /\ (ipc = "poll" /\ ipc' = "failed") =>
                 ~store_up /\ elapsed > ReadyTimeout /\ ~ready'
           /\ (ipc = "poll" /\ ipc' = "poll" /\ store_up' = store_up) =>
                 /\ ~store_up
                 /\ elapsed <= ReadyTimeout
                 /\ elapsed' = elapsed + PollInterval
           /\ (ipc \in {"model", "ensure", "load"} /\ store_up' = store_up)
                 => ipc' # ipc
           /\ (ipc = "upsert" /\ ipc' = "upsert" /\ store_up' = store_up)
                 => next_chunk' = next_chunk + 1 ]_vars
    /\ [](ipc = "poll" => elapsed <= ReadyTimeout + PollInterval)
    /\ [](ipc \in {"upsert", "done"} => ready /\ ensured)
    /\ (ipc = "poll" ~> ipc \in {"model", "failed"})

\* C11 happens: the store stayed unreachable, the timeout passed, and the run
\* failed with the store as it was before
C11_Witness ==
    /\ ipc = "failed"
    /\ ~ready
    /\ elapsed > ReadyTimeout
    /\ create_calls = 0
    /\ upsert_calls = 0

\* C6: the embedding model and the LLM client are each constructed at most
\* once, whatever requests arrive and however they overlap, and every request
\* that runs after the construction uses that one handle.
C6_HandlesBuiltOnce ==
    /\ embed_built <= 1
    /\ llm_built <= 1
    /\ embed_built = 1 => embedding_model = 1
    /\ llm_built = 1 => llm_client = 1
    /\ \A r \in Slots :
          /\ req[r].pc \in {"search", "llm_check", "llm_build", "sdk_call", "http_call"}
                => req[r].model = 1 /\ req[r].model = embedding_model
          /\ req[r].pc = "sdk_call" => req[r].client = 1 /\ req[r].client = llm_client

\* C6 happens: a request runs on handles that earlier requests constructed
C6_Witness ==
    \E r \in Slots :
        /\ req[r].pc = "sdk_call"
        /\ req[r].calls.load = 0
        /\ req[r].calls.build = 0
        /\ req[r].model = 1
        /\ req[r].client = 1

\* C7: health_check changes neither handle and constructs nothing; it reports
\* a handle as "deferred" exactly when it is null and as "initialized" exactly
\* when it is not, whether the store call succeeded or failed.
C7_HealthCheckFrame ==
    [][ \A r \in Slots :
          (req[r].pc = "health" /\ req'[r].pc = "idle") =>
              /\ embedding_model' = embedding_model
              /\ llm_client' = llm_client
              /\ embed_built' = embed_built
              /\ llm_built' = llm_built
              /\ response'.status = 200
              /\ response'.body.embedding_model = "deferred" <=> embedding_model = 0
              /\ response'.body.embedding_model = "initialized" <=> embedding_model # 0
              /\ response'.body.openai = "deferred" <=> llm_client = 0
              /\ response'.body.openai = "initialized" <=> llm_client # 0 ]_vars

\* C7 happens: a health check ran with one handle constructed, the other not,
\* and the store unreachable
C7_Witness ==
    /\ response.kind = "health"
    /\ response.status = 200
    /\ response.body.qdrant.status = "unhealthy"
    /\ response.body.embedding_model = "initialized"
    /\ response.body.openai = "deferred"
    /\ embedding_model # 0
    /\ llm_client = 0

\* C8 as stated: once startup ran with the LLM API key missing, the service
\* object is null.
C8_MissingKeyNullService ==
    (phase = "serving" /\ ~api_key) => rag_service = "null"

\* C8 amended: startup never aborts the process; a missing key is logged and
\* the service is constructed all the same, so the service object is null
\* exactly when constructing the service failed, and a request handled with a
\* non-null service is never turned away as "not initialized".
C8_StartupKeepsGoing ==
    /\ phase # "aborted"
    /\ phase = "serving" =>
          /\ config_error <=> ~api_key
          /\ rag_service = "null" <=> init_error
    /\ (response.kind \in Kinds /\ ~response.null_service) => response.error # "http_503"

\* C8 happens: the key is missing, startup ran, and a request was served
C8_Witness ==
    /\ phase = "serving"
    /\ ~api_key
    /\ config_error
    /\ rag_service = "service"
    /\ response.kind = "search"
    /\ response.status = 200

\* C9: in a chat answer, source i is made from search result i; its preview is
\* the content itself when the content has at most 200 characters, and the
\* first 200 characters followed by "..." when it has more.
C9_ContentPreview ==
    (response.kind = "chat" /\ response.status = 200) =>
        /\ Len(response.body.sources) = Len(response.results)
        /\ \A i \in 1..Len(response.results) :
              LET c == response.results[i].content.v
                  src == response.body.sources[i]
                  p == src.content_preview.v
              IN  /\ src.title = response.results[i].podcast_title
                  /\ src.tag = response.results[i].podcast_tag
                  /\ Len(c) <= 200 => p = c
                  /\ Len(c) > 200 =>
                        /\ Len(p) = 203
                        /\ \A k \in 1..200 : p[k] = c[k]
                        /\ \A k \in 201..203 : p[k] = "."

\* C9 happens: a chat answer cites a content of exactly 200 characters and
\* one of more
C9_Witness ==
    /\ response.kind = "chat"
    /\ response.status = 200
    /\ \E i, j \in 1..Len(response.results) :
          /\ Len(response.results[i].content.v) = 200
          /\ Len(response.results[j].content.v) > 200

StoreTag(scored_point) ==
    IF scored_point.payload.t = "dict" /\ "podcast_tag" \in DOMAIN scored_point.payload.v
    THEN scored_point.payload.v.podcast_tag
    ELSE VStr(<<>>)

\* C10 as stated: a list tag is rendered as its elements, all of them, joined
\* by ", " in list order; a scalar tag is returned as it is; the results keep
\* the store's order and count.
C10_TagJoinsEveryElement ==
    (response.kind = "search" /\ response.status = 200) =>
        /\ Len(response.results) = Len(response.hits)
        /\ \A i \in 1..Len(response.hits) :
              LET tag == StoreTag(response.hits[i])
              IN  /\ response.results[i].id = response.hits[i].id
                  /\ tag.t # "list" => response.results[i].podcast_tag = tag
                  /\ tag.t = "list" =>
                        response.results[i].podcast_tag =
                            VStr(Join(<<",", " ">>,
                                      [k \in 1..Len(tag.v) |-> StrOf(tag.v[k])]))

\* C10 amended: a list tag is rendered as its elements other than None, each
\* as a string, joined by ", " in list order (["a","b"] gives "a, b"); a
\* scalar tag is returned as it is; the results keep the store's order and count.
C10_TagJoinsNonNullElements ==
    (response.kind = "search" /\ response.status = 200) =>
        /\ Len(response.results) = Len(response.hits)
        /\ \A i \in 1..Len(response.hits) :
              LET tag == StoreTag(response.hits[i])
                  kept == IF tag.t = "list"
                          THEN SelectSeq(tag.v, LAMBDA e : e.t # "none")
                          ELSE <<>>
              IN  /\ response.results[i].id = response.hits[i].id
                  /\ response.results[i].score = response.hits[i].score
                  /\ tag.t # "list" => response.results[i].podcast_tag = tag
                  /\ tag.t = "list" =>
                        response.results[i].podcast_tag =
                            VStr(Join(<<",", " ">>,
                                      [k \in 1..Len(kept) |-> StrOf(kept[k])]))
                  /\ tag = TagAB =>
                        response.results[i].podcast_tag.v = <<"a", ",", " ", "b">>

\* C10 happens: a search returned a list tag and a scalar tag, in that order
C10_Witness ==
    /\ response.kind = "search"
    /\ response.status = 200
    /\ Len(response.hits) = 2
    /\ StoreTag(response.hits[1]).t = "list"
    /\ StoreTag(response.hits[2]).t = "str"
    /\ StoreTag(response.hits[2]).v # <<>>

\* C12: a generate_answer call attempts exactly one LLM path: the SDK call
\* when the client is there or was just constructed, the HTTP call only when
\* the construction was tried in this very call and failed, leaving the handle
\* null; when the attempted path fails the call raises and the other path is
\* not tried; a call that finds no handle tries the construction again, also
\* after an earlier failure.
C12_OneLlmPath ==
    /\ \A r \in Slots :
          /\ req[r].calls.sdk + req[r].calls.http <= 1
          /\ req[r].pc = "llm_check" => LlmAttempts(req[r].calls) = 0
          /\ req[r].pc = "llm_build" =>
                /\ llm_client = 0
                /\ LlmAttempts(req[r].calls) = 0
          /\ req[r].pc = "sdk_call" =>
                /\ req[r].client # 0
                /\ req[r].client = llm_client
                /\ req[r].calls.sdk + req[r].calls.http = 0
          /\ req[r].pc = "http_call" =>
                /\ req[r].client = 0
                /\ llm_client = 0
                /\ llm_failed
                /\ req[r].calls.build = 1
                /\ req[r].calls.sdk + req[r].calls.http = 0
    /\ (llm_failed /\ llm_built = 0) => llm_client = 0
    /\ response.kind = "chat" =>
          /\ response.calls.http = 1 =>
                response.calls.build = 1 /\ response.calls.sdk = 0
          /\ response.calls.sdk = 1 => response.calls.http = 0
          /\ response.error = "llm_sdk" =>
                /\ response.status = 500
                /\ response.calls.sdk = 1
                /\ response.calls.http = 0
          /\ response.error = "llm_http" =>
                /\ response.status = 500
                /\ response.calls.http = 1
                /\ response.calls.sdk = 0
          /\ (response.status = 200 /\ response.hits # <<>>) =>
                response.calls.sdk + response.calls.http = 1

\* C12 happens: after a construction that failed in an earlier call, this call
\* tried the construction again, got the client and is on the SDK path
C12_Witness ==
    \E r \in Slots :
        /\ req[r].pc = "sdk_call"
        /\ llm_failed
        /\ req[r].calls.build = 1
        /\ req[r].client = llm_client

====
